---- MODULE Spec2Model ----
(***************************************************************************)
(* NativePerformance: the native module behind the Performance Timeline    *)
(* API (marks, measures, timeline queries, performance observers).         *)
(*                                                                         *)
(* The module methods are translated from NativePerformance.cpp.  The      *)
(* PerformanceEntryReporter, its entry buffers and the PerformanceObserver *)
(* it drives live in react/performance/timeline and are modelled from     *)
(* their specification (sections 3 and 4 of the design document).          *)
(***************************************************************************)
EXTENDS Integers, Sequences, FiniteSets, TLC

(***************************************************************************)
(* Bounds of the model.                                                    *)
(***************************************************************************)
MaxTime == 1
MaxRecords == 3
BufferCapacity == 2

(* What a call of the module leaves to its caller: the method, its         *)
(* arguments, the error it threw if any, and the value it returned.        *)
Result(op, args, error, val) ==
    [op |-> op, args |-> args, error |-> error, value |-> val]

(* std::optional<T>: absent is the empty tuple, a value v is <<v>>. *)
None == <<>>
Some(v) == <<v>>
has_value(o) == o # None
value(o) == o[1]
value_or(o, d) == IF has_value(o) THEN value(o) ELSE d

(***************************************************************************)
(* Input domains.                                                          *)
(***************************************************************************)
Names == {"x", "y"}
Time == 0 .. MaxTime
Durations == {1}
OptTime == {None} \cup {Some(t) : t \in Time}
OptDuration == {None} \cup {Some(d) : d \in Durations}
OptName == {None} \cup {Some(n) : n \in Names}

MARK == "mark"
MEASURE == "measure"
EVENT == "event"
RESOURCE == "resource"
PerformanceEntryType == {MARK, MEASURE, EVENT, RESOURCE}
OptType == {None} \cup {Some(t) : t \in PerformanceEntryType}

(* jsi::Object handles: "o1" can get an observer attached by createObserver, *)
(* "foreign" is a plain object that never carries native state.             *)
Handles == {"o1", "foreign"}
ObserverHandles == {"o1"}

(* The bound of an observer's pending queue (implementation-defined). *)
QueueBound == BufferCapacity + 1

VARIABLES
    buffers,                  \* reporter: entry type -> sequence of entries
    droppedEntries,           \* reporter: entry type -> drop counter
    markIndex,                \* reporter: mark name -> optional timestamp
    observers,                \* handle -> attached observer state
    scheduled,                \* handle -> callbacks queued in the scheduler
    forcedCurrentTimeStamp_,  \* optional timestamp forced for testing
    recorded,                 \* number of entries recorded so far
    result,                   \* what the last call returned or threw
    mutex,                    \* reporter: the thread holding its mutex, if any
    threads                   \* thread -> the call it is in and its locals

(* result.op comes first: two results of different calls differ in it. *)
vars == <<result.op, result, buffers, droppedEntries, markIndex, observers,
          scheduled, forcedCurrentTimeStamp_, recorded, mutex, threads>>

reporterVars == <<buffers, droppedEntries, markIndex>>
observerVars == <<observers, scheduled>>
threadVars == <<mutex, threads>>

(* The threads that call into the reporter, and the name each records under. *)
Threads == {"t1", "t2"}
ThreadName == [t \in Threads |-> IF t = "t1" THEN "x" ELSE "y"]

(***************************************************************************)
(* Entries.  id is the position of the entry in the order of recording.    *)
(***************************************************************************)
Entry(id, name, type, startTime, duration) ==
    [id |-> id, name |-> name, entryType |-> type,
     startTime |-> startTime, duration |-> duration]

toNativePerformanceEntry(entry) ==
    [id |-> entry.id, name |-> entry.name, entryType |-> entry.entryType,
     startTime |-> entry.startTime, duration |-> entry.duration]

toNativePerformanceEntries(entries) ==
    [i \in 1 .. Len(entries) |-> toNativePerformanceEntry(entries[i])]

(* PerformanceEntrySorter: orders by startTime only. *)
PerformanceEntrySorter(lhs, rhs) == lhs.startTime < rhs.startTime

RECURSIVE InsertStable(_, _)
InsertStable(sorted, e) ==
    IF sorted = <<>> THEN <<e>>
    ELSE IF PerformanceEntrySorter(e, sorted[Len(sorted)])
         THEN Append(InsertStable(SubSeq(sorted, 1, Len(sorted) - 1), e),
                     sorted[Len(sorted)])
         ELSE Append(sorted, e)

RECURSIVE StableSort(_)
StableSort(entries) ==
    IF entries = <<>> THEN <<>>
    ELSE InsertStable(StableSort(SubSeq(entries, 1, Len(entries) - 1)),
                      entries[Len(entries)])

sortEntriesSkipped(entries) == entries

sortEntries(entries) == StableSort(entries)

ENTRY_TYPES_AVAILABLE_FROM_TIMELINE == <<MARK, MEASURE>>

isAvailableFromTimelineAlways(entryType) == TRUE

isAvailableFromTimeline(entryType) ==
    entryType = MARK \/ entryType = MEASURE

(***************************************************************************)
(* Entry buffer (section 4.1).                                             *)
(***************************************************************************)
BufferOverflows(buf) == Len(buf) + 1 > BufferCapacity

BufferInsertUnbounded(buf, entry) == Append(buf, entry)

BufferInsert(buf, entry) ==
    IF BufferOverflows(buf) THEN Tail(Append(buf, entry))
    ELSE Append(buf, entry)

BufferQueryAll(buf) == buf

BufferQueryByName(buf, name) ==
    LET keep(e) == e.name = name IN SelectSeq(buf, keep)

BufferClear(buf) == <<>>

BufferClearByName(buf, name) ==
    LET keep(e) == e.name # name IN SelectSeq(buf, keep)

(***************************************************************************)
(* Observer and observer registry (section 4.4).                           *)
(***************************************************************************)
NoObserver ==
    [attached |-> FALSE, state |-> "Idle", types |-> {},
     threshold |-> [t \in PerformanceEntryType |-> 0],
     queue |-> <<>>, dropped |-> 0]

NewObserver == [NoObserver EXCEPT !.attached = TRUE]

ObserverSubscribed(o, entry) ==
    /\ o.attached
    /\ o.state = "Observing"
    /\ entry.entryType \in o.types
    /\ entry.duration >= o.threshold[entry.entryType]

ObserverDelivers(o, entry) ==
    ObserverSubscribed(o, entry) /\ Len(o.queue) < QueueBound

ObserverHandleEntry(o, entry) ==
    IF ~ObserverSubscribed(o, entry) THEN o
    ELSE IF Len(o.queue) < QueueBound
         THEN [o EXCEPT !.queue = Append(@, entry)]
         ELSE [o EXCEPT !.dropped = @ + 1]

ZeroThreshold == [t \in PerformanceEntryType |-> 0]

RECURSIVE ObserverHandleEntries(_, _)
ObserverHandleEntries(o, entries) ==
    IF entries = <<>> THEN o
    ELSE ObserverHandleEntries(
             IF Len(o.queue) < QueueBound
             THEN [o EXCEPT !.queue = Append(@, Head(entries))]
             ELSE [o EXCEPT !.dropped = @ + 1],
             Tail(entries))

(***************************************************************************)
(* Initial state: an empty reporter, no observer attached to any handle,   *)
(* every thread outside of any call.                                       *)
(***************************************************************************)
Idle == [pc |-> "idle"]

Init ==
    /\ buffers = [t \in PerformanceEntryType |-> <<>>]
    /\ droppedEntries = [t \in PerformanceEntryType |-> 0]
    /\ markIndex = [n \in Names |-> None]
    /\ observers = [h \in Handles |-> NoObserver]
    /\ scheduled = [h \in Handles |-> 0]
    /\ forcedCurrentTimeStamp_ = None
    /\ recorded = 0
    /\ result = Result("init", <<>>, None, None)
    /\ mutex = None
    /\ threads = [t \in Threads |-> Idle]

(* A call made on one thread from its start to its return: it returns    *)
(* its result and leaves the other threads where they are.                 *)
Return(op, args, error, val) ==
    /\ result' = Result(op, args, error, val)
    /\ UNCHANGED threadVars

(***************************************************************************)
(* Reporter (section 4.2).                                                 *)
(***************************************************************************)
ReporterInsert(entry) ==
    /\ buffers' = [buffers EXCEPT
                      ![entry.entryType] = BufferInsert(@, entry)]
    /\ droppedEntries' = [droppedEntries EXCEPT
                      ![entry.entryType] =
                          IF BufferOverflows(buffers[entry.entryType])
                          THEN @ + 1 ELSE @]
    /\ observers' = [h \in Handles |->
                        ObserverHandleEntry(observers[h], entry)]
    /\ scheduled' = [h \in Handles |->
                        IF ObserverDelivers(observers[h], entry)
                        THEN scheduled[h] + 1 ELSE scheduled[h]]
    /\ recorded' = recorded + 1

reportMark(name, startTime) ==
    /\ ReporterInsert(Entry(recorded + 1, name, MARK, startTime, 0))
    /\ markIndex' = [markIndex EXCEPT ![name] = Some(startTime)]

reportMeasure(name, startTime, endTime) ==
    /\ ReporterInsert(Entry(recorded + 1, name, MEASURE, startTime,
                            endTime - startTime))
    /\ UNCHANGED markIndex

ReporterReportEntry(type, name, startTime, duration) ==
    /\ ReporterInsert(Entry(recorded + 1, name, type, startTime, duration))
    /\ UNCHANGED markIndex

getMarkTime(name) == markIndex[name]

ReporterGetEntries(type) == BufferQueryAll(buffers[type])

ReporterGetEntriesByName(type, name) == BufferQueryByName(buffers[type], name)

clearEntries(type) ==
    /\ buffers' = [buffers EXCEPT ![type] = BufferClear(@)]
    /\ markIndex' = IF type = MARK THEN [n \in Names |-> None] ELSE markIndex

clearEntriesByName(type, name) ==
    /\ buffers' = [buffers EXCEPT ![type] = BufferClearByName(@, name)]
    /\ markIndex' = IF type = MARK THEN [markIndex EXCEPT ![name] = None]
                    ELSE markIndex

(***************************************************************************)
(* NativePerformance::now.  The process clock is an external source: a     *)
(* read of it yields any timestamp unless a timestamp is forced.           *)
(***************************************************************************)
NowValues ==
    IF has_value(forcedCurrentTimeStamp_)
    THEN {value(forcedCurrentTimeStamp_)} ELSE Time

Throw(op, args, markName) ==
    /\ Return(op, args, Some(markName), None)
    /\ UNCHANGED <<reporterVars, observerVars, forcedCurrentTimeStamp_,
                   recorded>>

(***************************************************************************)
(* NativePerformance::markWithResult.                                      *)
(***************************************************************************)
markWithResult(name, startTime) ==
    /\ recorded < MaxRecords
    /\ \E now \in NowValues :
          LET t == value_or(startTime, now) IN
          /\ reportMark(name, t)
          /\ Return("mark", <<name, startTime>>, None, Some(t))
    /\ UNCHANGED forcedCurrentTimeStamp_

(***************************************************************************)
(* NativePerformance::measure: resolution of the start and end timestamps. *)
(* A resolution that throws yields None.                                   *)
(***************************************************************************)
measureStartTimeValueMarkFirst(startTime, startMark) ==
    IF has_value(startMark) THEN getMarkTime(value(startMark))
    ELSE IF has_value(startTime) THEN startTime
    ELSE Some(0)

measureStartTimeValueNoMark(startTime, startMark) ==
    IF has_value(startTime) THEN startTime ELSE Some(0)

measureStartTimeValue(startTime, startMark) ==
    IF has_value(startTime) THEN startTime
    ELSE IF has_value(startMark) THEN getMarkTime(value(startMark))
    ELSE Some(0)

measureEndTimeValueClamped(startTimeValue, endTime, duration, endMark, now) ==
    IF has_value(endTime)
    THEN IF value(endTime) < startTimeValue THEN Some(startTimeValue)
         ELSE endTime
    ELSE IF has_value(duration) THEN Some(startTimeValue + value(duration))
    ELSE IF has_value(endMark) THEN getMarkTime(value(endMark))
    ELSE Some(now)

measureEndTimeValue(startTimeValue, endTime, duration, endMark, now) ==
    IF has_value(endTime) THEN endTime
    ELSE IF has_value(duration) THEN Some(startTimeValue + value(duration))
    ELSE IF has_value(endMark) THEN getMarkTime(value(endMark))
    ELSE Some(now)

measure(name, startTime, endTime, duration, startMark, endMark) ==
    LET args == <<name, startTime, endTime, duration, startMark, endMark>>
        startTimeValue == measureStartTimeValue(startTime, startMark)
    IN
    /\ recorded < MaxRecords
    /\ IF ~has_value(startTimeValue)
       THEN Throw("measure", args, value(startMark))
       ELSE \E now \in NowValues :
              LET endTimeValue ==
                      measureEndTimeValue(value(startTimeValue), endTime,
                                          duration, endMark, now)
              IN
              IF ~has_value(endTimeValue)
              THEN Throw("measure", args, value(endMark))
              ELSE /\ reportMeasure(name, value(startTimeValue),
                                    value(endTimeValue))
                   /\ Return("measure", args, None,
                          Some(<<value(startTimeValue),
                                 value(endTimeValue) - value(startTimeValue)>>))
                   /\ UNCHANGED forcedCurrentTimeStamp_

(***************************************************************************)
(* NativePerformance::measureWithResult: startTime and endTime are always  *)
(* given.  The resolved values are computed, with a throw for a mark that  *)
(* is not indexed; the entry is then reported from the arguments that      *)
(* line 223 passes to reportMeasure.                                       *)
(***************************************************************************)
measureWithResultStartTimeValueFallsBack(startTime, startMark) ==
    IF has_value(startMark) /\ has_value(getMarkTime(value(startMark)))
    THEN getMarkTime(value(startMark))
    ELSE Some(startTime)

measureWithResultStartTimeValue(startTime, startMark) ==
    IF has_value(startMark) THEN getMarkTime(value(startMark))
    ELSE Some(startTime)

measureWithResultEndTimeValue(startTimeValue, endTime, duration, endMark, now) ==
    IF has_value(endMark) THEN getMarkTime(value(endMark))
    ELSE IF has_value(duration) THEN Some(startTimeValue + value(duration))
    ELSE IF endTime < startTimeValue THEN Some(now)
    ELSE Some(endTime)

measureWithResultReported(startTime, endTime, startTimeValue, endTimeValue) ==
    <<startTime, endTime>>

measureWithResult(name, startTime, endTime, duration, startMark, endMark) ==
    LET args == <<name, startTime, endTime, duration, startMark, endMark>>
        startTimeValue == measureWithResultStartTimeValue(startTime, startMark)
    IN
    /\ recorded < MaxRecords
    /\ IF ~has_value(startTimeValue)
       THEN Throw("measureWithResult", args, value(startMark))
       ELSE \E now \in NowValues :
              LET endTimeValue ==
                      measureWithResultEndTimeValue(value(startTimeValue),
                          endTime, duration, endMark, now)
              IN
              IF ~has_value(endTimeValue)
              THEN Throw("measureWithResult", args, value(endMark))
              ELSE LET reported ==
                           measureWithResultReported(startTime, endTime,
                               value(startTimeValue), value(endTimeValue))
                   IN
                   /\ reportMeasure(name, reported[1], reported[2])
                   /\ Return("measureWithResult", args, None,
                          Some(<<reported[1], reported[2] - reported[1]>>))
                   /\ UNCHANGED forcedCurrentTimeStamp_

(***************************************************************************)
(* NativePerformance::clearMarks / clearMeasures.                          *)
(***************************************************************************)
clearMarksIgnoresName(entryName) ==
    /\ clearEntries(MARK)
    /\ Return("clearMarks", <<entryName>>, None, None)
    /\ UNCHANGED <<droppedEntries, observerVars, forcedCurrentTimeStamp_,
                   recorded>>

clearMarks(entryName) ==
    /\ IF has_value(entryName)
       THEN clearEntriesByName(MARK, value(entryName))
       ELSE clearEntries(MARK)
    /\ Return("clearMarks", <<entryName>>, None, None)
    /\ UNCHANGED <<droppedEntries, observerVars, forcedCurrentTimeStamp_,
                   recorded>>

clearMeasures(entryName) ==
    /\ IF has_value(entryName)
       THEN clearEntriesByName(MEASURE, value(entryName))
       ELSE clearEntries(MEASURE)
    /\ Return("clearMeasures", <<entryName>>, None, None)
    /\ UNCHANGED <<droppedEntries, observerVars, forcedCurrentTimeStamp_,
                   recorded>>

(***************************************************************************)
(* Timeline queries: NativePerformance::getEntries, getEntriesByName,      *)
(* getEntriesByType.  Each collects from the reporter, sorts, converts.    *)
(***************************************************************************)
RECURSIVE CollectEntries(_)
CollectEntries(types) ==
    IF types = <<>> THEN <<>>
    ELSE ReporterGetEntries(Head(types)) \o CollectEntries(Tail(types))

RECURSIVE CollectEntriesByName(_, _)
CollectEntriesByName(types, entryName) ==
    IF types = <<>> THEN <<>>
    ELSE ReporterGetEntriesByName(Head(types), entryName)
         \o CollectEntriesByName(Tail(types), entryName)

getEntriesResult ==
    toNativePerformanceEntries(
        sortEntries(CollectEntries(ENTRY_TYPES_AVAILABLE_FROM_TIMELINE)))

getEntriesByNameResult(entryName, entryType) ==
    toNativePerformanceEntries(sortEntries(
        IF has_value(entryType)
        THEN IF isAvailableFromTimeline(value(entryType))
             THEN ReporterGetEntriesByName(value(entryType), entryName)
             ELSE <<>>
        ELSE CollectEntriesByName(ENTRY_TYPES_AVAILABLE_FROM_TIMELINE,
                                  entryName)))

getEntriesByTypeResult(entryType) ==
    toNativePerformanceEntries(sortEntries(
        IF isAvailableFromTimeline(entryType)
        THEN ReporterGetEntries(entryType)
        ELSE <<>>))

Query(op, args, returned) ==
    /\ Return(op, args, None, Some(returned))
    /\ UNCHANGED <<reporterVars, observerVars, forcedCurrentTimeStamp_,
                   recorded>>

getEntries == Query("getEntries", <<>>, getEntriesResult)

getEntriesByName(entryName, entryType) ==
    Query("getEntriesByName", <<entryName, entryType>>,
          getEntriesByNameResult(entryName, entryType))

getEntriesByType(entryType) ==
    Query("getEntriesByType", <<entryType>>,
          getEntriesByTypeResult(entryType))

(***************************************************************************)
(* NativePerformance::setCurrentTimeStampForTesting.                       *)
(***************************************************************************)
setCurrentTimeStampForTesting(ts) ==
    /\ forcedCurrentTimeStamp_' = Some(ts)
    /\ Return("setCurrentTimeStampForTesting", <<ts>>, None, None)
    /\ UNCHANGED <<reporterVars, observerVars, recorded>>

(***************************************************************************)
(* Event timing and resource timing entries are reported to the reporter   *)
(* by the event pipeline and the network layer, not through this module.   *)
(***************************************************************************)
reportEvent(name, startTime, duration) ==
    /\ recorded < MaxRecords
    /\ ReporterReportEntry(EVENT, name, startTime, duration)
    /\ Return("reportEvent", <<name, startTime, duration>>, None,
                        None)
    /\ UNCHANGED forcedCurrentTimeStamp_

reportResourceTiming(name, startTime, duration) ==
    /\ recorded < MaxRecords
    /\ ReporterReportEntry(RESOURCE, name, startTime, duration)
    /\ Return("reportResourceTiming", <<name, startTime, duration>>,
                        None, None)
    /\ UNCHANGED forcedCurrentTimeStamp_

(***************************************************************************)
(* PerformanceObserver::observe, disconnect, takeRecords (section 4.4).    *)
(***************************************************************************)
ObserverObserveMultipleRevives(o, entryTypes) ==
    [o EXCEPT !.types = entryTypes,
              !.threshold = ZeroThreshold,
              !.state = IF entryTypes = {} THEN "Idle" ELSE "Observing"]

ObserverObserveMultiple(o, entryTypes) ==
    IF o.state = "Disconnected" THEN o
    ELSE [o EXCEPT !.types = entryTypes,
                   !.threshold = ZeroThreshold,
                   !.state = IF entryTypes = {} THEN "Idle" ELSE "Observing"]

ObserverReplay(o, entries, buffered) ==
    IF buffered THEN ObserverHandleEntries(o, entries) ELSE o

ObserverObserveSingle(o, type, buffered, durationThreshold) ==
    IF o.state = "Disconnected" THEN o
    ELSE ObserverReplay(
             [o EXCEPT !.types = @ \cup {type},
                       !.threshold[type] = durationThreshold,
                       !.state = "Observing"],
             ReporterGetEntries(type), buffered)

ObserverDisconnect(o) ==
    [o EXCEPT !.state = "Disconnected", !.types = {},
              !.threshold = ZeroThreshold]

ObserverTakeRecords(o) == o.queue

ObserverAfterTakeRecords(o) == [o EXCEPT !.queue = <<>>]

(***************************************************************************)
(* tryGetObserver: the observer attached to a handle, if any.              *)
(***************************************************************************)
tryGetObserver(observerObj) ==
    IF ~observers[observerObj].attached THEN None ELSE Some(observerObj)

(***************************************************************************)
(* NativePerformance::createObserver.                                      *)
(***************************************************************************)
createObserver(observerObj) ==
    /\ observerObj \in ObserverHandles
    /\ ~observers[observerObj].attached
    /\ observers' = [observers EXCEPT ![observerObj] = NewObserver]
    /\ Return("createObserver", <<observerObj>>, None,
                        Some(observerObj))
    /\ UNCHANGED <<reporterVars, scheduled, forcedCurrentTimeStamp_, recorded>>

(***************************************************************************)
(* NativePerformance::getDroppedEntriesCount.                              *)
(***************************************************************************)
getDroppedEntriesCountResult(observerObj) ==
    IF ~has_value(tryGetObserver(observerObj)) THEN 0
    ELSE observers[observerObj].dropped

getDroppedEntriesCount(observerObj) ==
    Query("getDroppedEntriesCount", <<observerObj>>,
          getDroppedEntriesCountResult(observerObj))

(***************************************************************************)
(* NativePerformance::observe.  options has the optional fields type,      *)
(* entryTypes, buffered and durationThreshold.                             *)
(***************************************************************************)
observeDurationThresholdIgnored(options) == 0

observeDurationThreshold(options) == value_or(options.durationThreshold, 0)

observeBufferedByDefault(options) == value_or(options.buffered, TRUE)

observeBuffered(options) == value_or(options.buffered, FALSE)

observeObserverSingleFirst(o, options) ==
    IF has_value(options.type)
    THEN ObserverObserveSingle(o, value(options.type),
             observeBuffered(options), observeDurationThreshold(options))
    ELSE IF has_value(options.entryTypes)
         THEN ObserverObserveMultiple(o, value(options.entryTypes))
         ELSE o

observeObserver(o, options) ==
    IF has_value(options.entryTypes)
    THEN ObserverObserveMultiple(o, value(options.entryTypes))
    ELSE IF has_value(options.type)
         THEN ObserverObserveSingle(o, value(options.type),
                  observeBuffered(options), observeDurationThreshold(options))
         ELSE o

observe(observerObj, options) ==
    /\ IF ~has_value(tryGetObserver(observerObj))
       THEN UNCHANGED observers
       ELSE /\ observers' = [observers EXCEPT
                    ![observerObj] = observeObserver(@, options)]
            /\ observers'[observerObj].dropped <= MaxRecords
    /\ Return("observe", <<observerObj, options>>, None, None)
    /\ UNCHANGED <<reporterVars, scheduled, forcedCurrentTimeStamp_, recorded>>

(***************************************************************************)
(* disconnect and takeRecords read observerObj.getNativeState(rt) without  *)
(* the hasNativeState check that tryGetObserver makes.  On an object with  *)
(* a wrapper the read yields the wrapper.  On an object without native     *)
(* state the read is outside the contract of getNativeState: it yields a   *)
(* null pointer or it faults, depending on the build.                      *)
(***************************************************************************)
getNativeState(o) == IF o.attached THEN {"wrapper"} ELSE {"null", "fault"}

Fault(op, args) == Throw(op, args, "getNativeState")

(***************************************************************************)
(* NativePerformance::disconnect.                                          *)
(***************************************************************************)
disconnectObserverSkips(o) == o

disconnectObserver(o) ==
    IF ~o.attached THEN o ELSE ObserverDisconnect(o)

disconnect(observerObj) ==
    \E nativeState \in getNativeState(observers[observerObj]) :
       IF nativeState = "fault"
       THEN Fault("disconnect", <<observerObj>>)
       ELSE /\ observers' = [observers EXCEPT
                                ![observerObj] = disconnectObserver(@)]
            /\ Return("disconnect", <<observerObj>>, None, None)
            /\ UNCHANGED <<reporterVars, scheduled, forcedCurrentTimeStamp_,
                           recorded>>

(***************************************************************************)
(* NativePerformance::takeRecords.                                         *)
(***************************************************************************)
takeRecordsResult(o, sort) ==
    IF ~o.attached THEN <<>>
    ELSE toNativePerformanceEntries(
             IF sort THEN sortEntries(ObserverTakeRecords(o))
             ELSE ObserverTakeRecords(o))

takeRecordsObserverKeeps(o) == o

takeRecordsObserver(o) ==
    IF ~o.attached THEN o ELSE ObserverAfterTakeRecords(o)

takeRecords(observerObj, sort) ==
    \E nativeState \in getNativeState(observers[observerObj]) :
       IF nativeState = "fault"
       THEN Fault("takeRecords", <<observerObj, sort>>)
       ELSE /\ observers' = [observers EXCEPT
                                ![observerObj] = takeRecordsObserver(@)]
            /\ Return("takeRecords", <<observerObj, sort>>, None,
                   Some(takeRecordsResult(observers[observerObj], sort)))
            /\ UNCHANGED <<reporterVars, scheduled, forcedCurrentTimeStamp_,
                           recorded>>

(***************************************************************************)
(* The scheduler runs one queued observer callback.  The callback does     *)
(* nothing when its observer is no longer observing.                       *)
(***************************************************************************)
CallbackInvoked(o) == o.attached /\ o.state = "Observing"

RunCallbackBatched(observerObj) ==
    /\ scheduled[observerObj] > 0
    /\ scheduled' = [scheduled EXCEPT ![observerObj] = 0]
    /\ Return("callback", <<observerObj>>, None,
                        Some(CallbackInvoked(observers[observerObj])))
    /\ UNCHANGED <<reporterVars, observers, forcedCurrentTimeStamp_, recorded>>

RunCallback(observerObj) ==
    /\ scheduled[observerObj] > 0
    /\ scheduled' = [scheduled EXCEPT ![observerObj] = @ - 1]
    /\ Return("callback", <<observerObj>>, None,
                        Some(CallbackInvoked(observers[observerObj])))
    /\ UNCHANGED <<reporterVars, observers, forcedCurrentTimeStamp_, recorded>>

(***************************************************************************)
(* Specification of mark and measure: the resolution of a measure's start  *)
(* and end from times, marks, a duration and the clock.                    *)
(***************************************************************************)
MeasureNames == {"m"}
MarkRefs == {None, Some("x")}
MeasureStartTimes == {None, Some(1)}
MeasureEndTimes == {None, Some(0), Some(MaxTime)}
ResultStartTimes == {1}
ResultEndTimes == {0, MaxTime}
ForcedTimes == {MaxTime}

Next ==
    \/ \E name \in Names, startTime \in OptTime :
          markWithResult(name, startTime)
    \/ \E name \in MeasureNames, startTime \in MeasureStartTimes,
          endTime \in MeasureEndTimes, duration \in OptDuration,
          startMark \in MarkRefs, endMark \in MarkRefs :
          measure(name, startTime, endTime, duration, startMark, endMark)
    \/ \E name \in MeasureNames, startTime \in ResultStartTimes,
          endTime \in ResultEndTimes, duration \in OptDuration,
          startMark \in MarkRefs, endMark \in MarkRefs :
          measureWithResult(name, startTime, endTime, duration, startMark,
                            endMark)
    \/ \E entryName \in OptName : clearMarks(entryName)
    \/ \E ts \in ForcedTimes : setCurrentTimeStampForTesting(ts)

Spec == Init /\ [][Next]_vars

(***************************************************************************)
(* Specification of the observers: entries are recorded while an observer  *)
(* is created, subscribed, drained and disconnected, and the scheduler     *)
(* runs its callbacks.                                                     *)
(***************************************************************************)
Options(type, entryTypes, buffered, durationThreshold) ==
    [type |-> type, entryTypes |-> entryTypes, buffered |-> buffered,
     durationThreshold |-> durationThreshold]

DrainOptions ==
    {Options(None, Some({MARK}), None, None),
     Options(Some(MARK), None, Some(TRUE), None)}

NextObserver ==
    \/ \E startTime \in Time : markWithResult("x", Some(startTime))
    \/ \E observerObj \in ObserverHandles : createObserver(observerObj)
    \/ \E observerObj \in ObserverHandles, options \in DrainOptions :
          observe(observerObj, options)
    \/ \E observerObj \in ObserverHandles : disconnect(observerObj)
    \/ \E observerObj \in ObserverHandles, sort \in BOOLEAN :
          takeRecords(observerObj, sort)
    \/ \E observerObj \in ObserverHandles : RunCallback(observerObj)

SpecObserver == Init /\ [][NextObserver]_vars

(***************************************************************************)
(* Specification of single-mode subscriptions: marks and measures of       *)
(* several durations are recorded, and an observer subscribes to one type  *)
(* at a time, with or without the replay of the buffer and a duration      *)
(* threshold.                                                              *)
(***************************************************************************)
ObservedTypes == {MEASURE}
OptBoolean == {None, Some(TRUE), Some(FALSE)}

SingleOptions ==
    {Options(Some(t), None, b, d) :
        t \in ObservedTypes, b \in OptBoolean, d \in OptDuration}

NextSubscribe ==
    \/ \E startTime \in {0} : markWithResult("x", Some(startTime))
    \/ \E startTime \in MeasureStartTimes, endTime \in ResultEndTimes :
          measure("m", startTime, Some(endTime), None, None, None)
    \/ \E observerObj \in ObserverHandles : createObserver(observerObj)
    \/ \E observerObj \in ObserverHandles, options \in SingleOptions :
          observe(observerObj, options)
    \/ \E observerObj \in ObserverHandles :
          takeRecords(observerObj, FALSE)

SpecSubscribe == Init /\ [][NextSubscribe]_vars

(***************************************************************************)
(* Specification of measures that name marks, indexed or not, while an     *)
(* observer of marks and measures is attached.                             *)
(***************************************************************************)
TimelineOptions == {Options(None, Some({MARK, MEASURE}), None, None)}

StartMarks == {None, Some("x")}
EndMarks == {None, Some("y")}

NextMissingMark ==
    \/ \E startTime \in Time : markWithResult("x", Some(startTime))
    \/ \E startTime \in MeasureStartTimes, endTime \in {None, Some(MaxTime)},
          duration \in OptDuration, startMark \in StartMarks,
          endMark \in EndMarks :
          measure("m", startTime, endTime, duration, startMark, endMark)
    \/ \E startMark \in StartMarks, endMark \in EndMarks :
          measureWithResult("m", 1, MaxTime, None, startMark, endMark)
    \/ \E observerObj \in ObserverHandles : createObserver(observerObj)
    \/ \E observerObj \in ObserverHandles, options \in TimelineOptions :
          observe(observerObj, options)

SpecMissingMark == Init /\ [][NextMissingMark]_vars

(***************************************************************************)
(* Specification of the order of results: marks and measures are recorded  *)
(* at equal and at different times, the timeline is queried, and an        *)
(* observer of both types takes its records sorted.                        *)
(***************************************************************************)
NextQuery ==
    \/ \E name \in Names, startTime \in Time :
          markWithResult(name, Some(startTime))
    \/ \E startTime \in Time :
          measure("x", Some(startTime), Some(MaxTime), None, None, None)
    \/ getEntries
    \/ \E entryType \in {None, Some(MARK)} : getEntriesByName("x", entryType)
    \/ \E entryType \in {MARK, MEASURE} : getEntriesByType(entryType)
    \/ \E observerObj \in ObserverHandles : createObserver(observerObj)
    \/ \E observerObj \in ObserverHandles, options \in TimelineOptions :
          observe(observerObj, options)
    \/ \E observerObj \in ObserverHandles : takeRecords(observerObj, TRUE)

SpecQuery == Init /\ [][NextQuery]_vars

(***************************************************************************)
(* Specification of the timeline's type restriction: event timing and      *)
(* resource timing entries are recorded next to marks, the timeline is     *)
(* queried for every type, and an observer subscribes to types.            *)
(***************************************************************************)
EventOptions ==
    {Options(None, Some(ts), None, None) : ts \in {{MARK}, {EVENT, RESOURCE}}}
    \cup {Options(Some(EVENT), None, Some(TRUE), None)}

NextEvent ==
    \/ markWithResult("x", Some(0))
    \/ reportEvent("x", 0, 1)
    \/ reportResourceTiming("x", 0, 1)
    \/ getEntries
    \/ \E entryType \in {None, Some(EVENT)} : getEntriesByName("x", entryType)
    \/ \E entryType \in PerformanceEntryType : getEntriesByType(entryType)
    \/ \E observerObj \in ObserverHandles : createObserver(observerObj)
    \/ \E observerObj \in ObserverHandles, options \in EventOptions :
          observe(observerObj, options)

SpecEvent == Init /\ [][NextEvent]_vars

(***************************************************************************)
(* Helpers of the properties.                                              *)
(***************************************************************************)
IsPrefix(s, t) == Len(s) <= Len(t) /\ SubSeq(t, 1, Len(s)) = s

Occurrences(s, e) == Cardinality({i \in DOMAIN s : s[i] = e})

SameEntries(s, t) ==
    /\ Len(s) = Len(t)
    /\ \A i \in DOMAIN s : Occurrences(s, s[i]) = Occurrences(t, s[i])

LastEntry(type) == buffers[type][Len(buffers[type])]

MarksToResolve(op, args) ==
    LET startTime == args[2]
        endTime == args[3]
        duration == args[4]
        startMark == args[5]
        endMark == args[6]
    IN
    IF op = "measure"
    THEN {m \in Names :
            \/ ~has_value(startTime) /\ startMark = Some(m)
            \/ ~has_value(endTime) /\ ~has_value(duration) /\ endMark = Some(m)}
    ELSE {m \in Names : startMark = Some(m) \/ endMark = Some(m)}

C2_MissingMarkRecordsNothing ==
    [][(result'.op \in {"measure", "measureWithResult"}) =>
          LET missing == {m \in MarksToResolve(result'.op, result'.args) :
                            ~has_value(markIndex[m])}
          IN
          missing # {} =>
             /\ has_value(result'.error)
             /\ value(result'.error) \in missing
             /\ ~has_value(result'.value)
             /\ buffers' = buffers
             /\ markIndex' = markIndex
             /\ observers' = observers
             /\ scheduled' = scheduled
      ]_vars

(* measure("m", startMark = "x", endMark = "y") with only "x" indexed, *)
(* while an observer holds pending entries.                            *)
C2_Witness ==
    /\ result.op = "measure"
    /\ result.args[5] = Some("x")
    /\ has_value(markIndex["x"])
    /\ result.error = Some("y")
    /\ buffers[MEASURE] # <<>>
    /\ \E h \in ObserverHandles : observers[h].queue # <<>>

(***************************************************************************)
(* C3: in measureWithResult a given, indexed startMark decides the start   *)
(* of the recorded and returned entry, and a given, indexed endMark        *)
(* decides its end.                                                        *)
(***************************************************************************)
C3_MarkOverridesTime ==
    (result.op = "measureWithResult" /\ ~has_value(result.error)) =>
        LET startMark == result.args[5]
            endMark == result.args[6]
            returned == value(result.value)
            entry == LastEntry(MEASURE)
        IN
        /\ has_value(startMark) =>
              /\ returned[1] = value(markIndex[value(startMark)])
              /\ entry.startTime = value(markIndex[value(startMark)])
        /\ has_value(endMark) =>
              /\ returned[1] + returned[2] = value(markIndex[value(endMark)])
              /\ entry.startTime + entry.duration =
                     value(markIndex[value(endMark)])

(***************************************************************************)
(* C4: the results of getEntries, getEntriesByType and getEntriesByName    *)
(* hold Mark and Measure entries only, the last two are empty for a type   *)
(* other than Mark and Measure, and an EventTiming or ResourceTiming entry *)
(* enters an observer's queue only while the observer is subscribed to     *)
(* the entry's type.                                                       *)
(***************************************************************************)
TimelineQueries == {"getEntries", "getEntriesByName", "getEntriesByType"}

C4_TimelineHoldsMarksAndMeasures ==
    [][/\ result'.op \in TimelineQueries =>
             \A i \in DOMAIN value(result'.value) :
                value(result'.value)[i].entryType \in {MARK, MEASURE}
       /\ (result'.op = "getEntriesByType"
           /\ result'.args[1] \notin {MARK, MEASURE}) =>
             result'.value = Some(<<>>)
       /\ (result'.op = "getEntriesByName" /\ has_value(result'.args[2])
           /\ value(result'.args[2]) \notin {MARK, MEASURE}) =>
             result'.value = Some(<<>>)
       /\ \A h \in ObserverHandles :
             \A i \in DOMAIN observers'[h].queue :
                (/\ i > Len(observers[h].queue)
                 /\ observers'[h].queue[i].entryType \in {EVENT, RESOURCE})
                => observers'[h].queue[i].entryType \in observers'[h].types
      ]_vars

C4_Witness ==
    /\ result.op = "getEntriesByType"
    /\ result.args = <<EVENT>>
    /\ result.value = Some(<<>>)
    /\ buffers[EVENT] # <<>>
    /\ buffers[MARK] # <<>>
    /\ \E h \in ObserverHandles :
          \E i \in DOMAIN observers[h].queue :
             observers[h].queue[i].entryType = EVENT

(***************************************************************************)
(* C5 as stated: every result of getEntries, getEntriesByName,             *)
(* getEntriesByType and takeRecords(sort = true) is ordered by startTime,  *)
(* and entries of equal startTime are in the order of their recording,     *)
(* whatever their types.                                                   *)
(***************************************************************************)
IsSortedResult ==
    \/ result.op \in TimelineQueries
    \/ result.op = "takeRecords" /\ result.args[2] /\ ~has_value(result.error)

C5_TiesInRecordedOrder ==
    IsSortedResult =>
        LET r == value(result.value) IN
        \A i, j \in DOMAIN r :
           i < j => \/ r[i].startTime < r[j].startTime
                    \/ r[i].startTime = r[j].startTime /\ r[i].id < r[j].id

(***************************************************************************)
(* C5 as amended: every such result is ordered by startTime; entries of    *)
(* equal startTime keep the order of the sequence that was sorted: in a    *)
(* timeline query the Marks in the order of their recording, followed by   *)
(* the Measures in the order of their recording; in takeRecords the order  *)
(* of the observer's queue.                                                *)
(***************************************************************************)
AtTime(s, t) == LET at(e) == e.startTime = t IN SelectSeq(s, at)

Named(s, name) == LET named(e) == e.name = name IN SelectSeq(s, named)

StartTimes(s) == {s[i].startTime : i \in DOMAIN s}

KeepsOrderOf(r, source) ==
    /\ \A i, j \in DOMAIN r : i < j => r[i].startTime <= r[j].startTime
    /\ \A t \in StartTimes(r) \cup StartTimes(source) :
          AtTime(r, t) = AtTime(source, t)

InRecordedOrder(s) == \A i, j \in DOMAIN s : i < j => s[i].id < s[j].id

C5_TiesKeepSourceOrder ==
    [][LET r == value(result'.value)
           marks == buffers[MARK]
           measures == buffers[MEASURE]
       IN
       /\ InRecordedOrder(marks) /\ InRecordedOrder(measures)
       /\ result'.op = "getEntries" => KeepsOrderOf(r, marks \o measures)
       /\ result'.op = "getEntriesByType" =>
             KeepsOrderOf(r, IF result'.args[1] \in {MARK, MEASURE}
                             THEN buffers[result'.args[1]] ELSE <<>>)
       /\ result'.op = "getEntriesByName" =>
             LET name == result'.args[1]
                 type == result'.args[2]
             IN
             KeepsOrderOf(r,
                 IF ~has_value(type)
                 THEN Named(marks, name) \o Named(measures, name)
                 ELSE IF value(type) \in {MARK, MEASURE}
                      THEN Named(buffers[value(type)], name)
                      ELSE <<>>)
       /\ (result'.op = "takeRecords" /\ result'.args[2]
           /\ observers[result'.args[1]].attached) =>
             KeepsOrderOf(r, observers[result'.args[1]].queue)
      ]_vars

(* A Measure recorded before a Mark of the same startTime is returned *)
(* after it, and an entry recorded later is returned earlier.         *)
C5_Witness ==
    /\ result.op = "getEntries"
    /\ LET r == value(result.value) IN
       /\ Len(r) >= 3
       /\ \E i, j \in DOMAIN r :
             /\ i < j
             /\ r[i].entryType = MARK /\ r[j].entryType = MEASURE
             /\ r[i].startTime = r[j].startTime
             /\ r[i].id > r[j].id
       /\ \E i, j \in DOMAIN r :
             i < j /\ r[i].startTime < r[j].startTime /\ r[i].id > r[j].id

(***************************************************************************)
(* C6: takeRecords returns exactly the entries pending in the observer's   *)
(* queue (in queue order, or in sorted order when sort is set) and leaves  *)
(* the queue empty, and no other operation removes an entry from the       *)
(* queue: each delivered entry is returned by exactly one takeRecords.     *)
(***************************************************************************)
C6_TakeRecordsDrainsOnce ==
    [][\A h \in ObserverHandles :
          LET pending == observers[h].queue
              taken == result'.op = "takeRecords" /\ result'.args[1] = h
          IN
          /\ (taken /\ observers[h].attached) =>
                /\ observers'[h].queue = <<>>
                /\ SameEntries(value(result'.value), pending)
                /\ ~result'.args[2] => value(result'.value) = pending
          /\ ~taken => IsPrefix(pending, observers'[h].queue)
      ]_vars

C6_Witness ==
    /\ result.op = "takeRecords"
    /\ has_value(result.value)
    /\ Len(value(result.value)) >= 2
    /\ observers[result.args[1]].queue = <<>>
    /\ recorded >= 2

(***************************************************************************)
(* C7: disconnect puts the observer in the Disconnected state with no      *)
(* subscription; from then on its queue never grows and no callback is     *)
(* scheduled for it; a callback that runs after the disconnect is a no-op  *)
(* that does not fail; a second disconnect changes nothing.                *)
(***************************************************************************)
C7_DisconnectStopsRouting ==
    [][\A h \in ObserverHandles :
          LET o == observers[h]
              disconnected == o.attached /\ o.state = "Disconnected"
          IN
          /\ (result'.op = "disconnect" /\ result'.args[1] = h
              /\ o.attached) =>
                /\ observers'[h].state = "Disconnected"
                /\ observers'[h].types = {}
                /\ ~has_value(result'.error)
          /\ disconnected =>
                /\ observers'[h].state = "Disconnected"
                /\ Len(observers'[h].queue) <= Len(o.queue)
                /\ scheduled'[h] <= scheduled[h]
          /\ (disconnected /\ result'.op = "callback"
              /\ result'.args[1] = h) =>
                /\ result'.value = Some(FALSE)
                /\ ~has_value(result'.error)
                /\ observers' = observers
          /\ (disconnected /\ result'.op = "disconnect"
              /\ result'.args[1] = h) =>
                /\ observers' = observers
                /\ scheduled' = scheduled
                /\ buffers' = buffers
      ]_vars

C7_Witness ==
    /\ result.op = "callback"
    /\ result.value = Some(FALSE)
    /\ observers[result.args[1]].state = "Disconnected"
    /\ observers[result.args[1]].queue # <<>>
    /\ recorded = MaxRecords

(***************************************************************************)
(* C8: a single-mode observe with buffered = true appends to the           *)
(* observer's queue, at that call and only then, the entries of the type   *)
(* retained in the reporter's buffer, in buffer order (as far as the       *)
(* queue's bound allows): a fresh observer then holds exactly the buffer.  *)
(* With buffered false or absent the queue is left as it was.  A later     *)
(* record appends at most the entry it records.                            *)
(***************************************************************************)
Take(s, n) == IF Len(s) <= n THEN s ELSE SubSeq(s, 1, n)

IsRecordOp(op) ==
    op \in {"mark", "measure", "measureWithResult", "reportEvent",
            "reportResourceTiming"}

C8_BufferedReplay ==
    [][\A h \in ObserverHandles :
          LET o == observers[h]
              pending == o.queue
              options == result'.args[2]
          IN
          /\ (result'.op = "observe" /\ result'.args[1] = h /\ o.attached
              /\ o.state # "Disconnected" /\ ~has_value(options.entryTypes)
              /\ has_value(options.type)) =>
                LET retained == buffers[value(options.type)] IN
                IF options.buffered = Some(TRUE)
                THEN /\ observers'[h].queue =
                            Take(pending \o retained, QueueBound)
                     /\ pending = <<>> => observers'[h].queue = retained
                ELSE observers'[h].queue = pending
          /\ (IsRecordOp(result'.op) /\ recorded' = recorded + 1) =>
                \/ observers'[h].queue = pending
                \/ /\ Len(observers'[h].queue) = Len(pending) + 1
                   /\ IsPrefix(pending, observers'[h].queue)
                   /\ observers'[h].queue[Len(pending) + 1].id = recorded'
      ]_vars

C8_Witness ==
    /\ result.op = "observe"
    /\ result.args[2].buffered = Some(TRUE)
    /\ result.args[2].type = Some(MEASURE)
    /\ Len(buffers[MEASURE]) = BufferCapacity
    /\ observers[result.args[1]].queue = buffers[MEASURE]

(***************************************************************************)
(* C9: an observer subscribed in single mode to a type with a duration     *)
(* threshold T (0 when absent) gets a newly recorded entry of that type    *)
(* appended to its queue if the entry's duration is at least T and the     *)
(* queue has room, counts it as dropped if the queue is full, and is left  *)
(* unchanged if the duration is below T or the type is not subscribed.     *)
(***************************************************************************)
C9_DurationThreshold ==
    [][\A h \in ObserverHandles :
          LET o == observers[h]
              options == result'.args[2]
          IN
          /\ (result'.op = "observe" /\ result'.args[1] = h /\ o.attached
              /\ o.state # "Disconnected" /\ ~has_value(options.entryTypes)
              /\ has_value(options.type)) =>
                /\ value(options.type) \in observers'[h].types
                /\ observers'[h].state = "Observing"
                /\ observers'[h].threshold[value(options.type)] =
                       IF has_value(options.durationThreshold)
                       THEN value(options.durationThreshold) ELSE 0
          /\ (IsRecordOp(result'.op) /\ recorded' = recorded + 1
              /\ o.attached /\ o.state = "Observing") =>
                \E type \in PerformanceEntryType :
                   LET buffer == buffers'[type]
                       entry == buffer[Len(buffer)]
                   IN
                   /\ buffer # <<>>
                   /\ entry.id = recorded'
                   /\ IF type \notin o.types
                         \/ entry.duration < o.threshold[type]
                      THEN observers'[h] = o
                      ELSE IF Len(o.queue) < QueueBound
                           THEN observers'[h] =
                                    [o EXCEPT !.queue = Append(@, entry)]
                           ELSE observers'[h] =
                                    [o EXCEPT !.dropped = @ + 1]
      ]_vars

C9_Witness ==
    /\ result.op = "measure"
    /\ \E h \in ObserverHandles :
          /\ observers[h].state = "Observing"
          /\ MEASURE \in observers[h].types
          /\ observers[h].threshold[MEASURE] = 1
          /\ LastEntry(MEASURE).id = recorded
          /\ LastEntry(MEASURE).duration < 1
          /\ \A i \in DOMAIN observers[h].queue :
                observers[h].queue[i].id # recorded
          /\ \E i \in DOMAIN observers[h].queue :
                /\ observers[h].queue[i].duration >= 1
                /\ observers[h].queue[i].id = recorded - 1

(***************************************************************************)
(* C10: every buffer holds at most BufferCapacity entries, in the order    *)
(* of their recording; a record that does not throw inserts its entry at   *)
(* the tail of one buffer, evicts the oldest entry and adds one to that    *)
(* buffer's drop counter exactly when the buffer was full, and leaves the  *)
(* other buffers and counters alone.                                       *)
(***************************************************************************)
C10_BufferBound ==
    [][/\ \A type \in PerformanceEntryType :
             /\ Len(buffers'[type]) <= BufferCapacity
             /\ InRecordedOrder(buffers'[type])
       /\ (IsRecordOp(result'.op) /\ ~has_value(result'.error)) =>
             /\ recorded' = recorded + 1
             /\ \E type \in PerformanceEntryType :
                   LET old == buffers[type]
                       new == buffers'[type]
                   IN
                   /\ new # <<>>
                   /\ new[Len(new)].id = recorded'
                   /\ new[Len(new)].entryType = type
                   /\ IF Len(old) = BufferCapacity
                      THEN /\ new = Append(Tail(old), new[Len(new)])
                           /\ droppedEntries'[type] = droppedEntries[type] + 1
                      ELSE /\ new = Append(old, new[Len(new)])
                           /\ droppedEntries'[type] = droppedEntries[type]
                   /\ \A other \in PerformanceEntryType \ {type} :
                         /\ buffers'[other] = buffers[other]
                         /\ droppedEntries'[other] = droppedEntries[other]
      ]_vars

(* BufferCapacity + 1 marks recorded into the empty Mark buffer. *)
C10_Witness ==
    /\ recorded = BufferCapacity + 1
    /\ Len(buffers[MARK]) = BufferCapacity
    /\ buffers[MARK][1].id = 2
    /\ buffers[MARK][BufferCapacity].id = BufferCapacity + 1
    /\ droppedEntries[MARK] = 1
    /\ buffers[MEASURE] = <<>>

(***************************************************************************)
(* Specification of handles without observer state: the module's observer  *)
(* methods are called with a plain object and with a handle whose observer *)
(* is created later, while marks are recorded and delivered.               *)
(***************************************************************************)
NextForeign ==
    \/ \E startTime \in Time : markWithResult("x", Some(startTime))
    \/ \E observerObj \in ObserverHandles : createObserver(observerObj)
    \/ \E observerObj \in Handles, options \in DrainOptions :
          observe(observerObj, options)
    \/ \E observerObj \in Handles : disconnect(observerObj)
    \/ \E observerObj \in Handles : takeRecords(observerObj, FALSE)
    \/ \E observerObj \in Handles : getDroppedEntriesCount(observerObj)

SpecForeign == Init /\ [][NextForeign]_vars

(***************************************************************************)
(* C11: observe, disconnect, takeRecords and getDroppedEntriesCount called *)
(* with a handle that has no observer attached do not fail and leave the   *)
(* buffers, the index, every observer and the scheduled callbacks as they  *)
(* were; takeRecords returns the empty sequence, getDroppedEntriesCount 0. *)
(***************************************************************************)
ObserverOps == {"observe", "disconnect", "takeRecords", "getDroppedEntriesCount"}

C11_NoObserverNoEffect ==
    [][(/\ result'.op \in ObserverOps
        /\ ~observers[result'.args[1]].attached) =>
          /\ ~has_value(result'.error)
          /\ buffers' = buffers
          /\ droppedEntries' = droppedEntries
          /\ markIndex' = markIndex
          /\ observers' = observers
          /\ scheduled' = scheduled
          /\ result'.op = "takeRecords" => result'.value = Some(<<>>)
          /\ result'.op = "getDroppedEntriesCount" => result'.value = Some(0)
      ]_vars

(***************************************************************************)
(* Specification of the clears: marks and measures of two names are        *)
(* recorded, and marks and measures are cleared by name and altogether.    *)
(***************************************************************************)
NextClear ==
    \/ \E name \in Names, startTime \in Time :
          markWithResult(name, Some(startTime))
    \/ \E name \in Names :
          measure(name, Some(0), Some(MaxTime), None, None, None)
    \/ \E entryName \in OptName : clearMarks(entryName)
    \/ \E entryName \in OptName : clearMeasures(entryName)

SpecClear == Init /\ [][NextClear]_vars

(***************************************************************************)
(* C13: clearMarks(name) removes the Marks of that name and keeps the      *)
(* other Marks in their order; clearMarks() empties the Mark buffer; both  *)
(* leave the Measure buffer as it was.  clearMeasures does the same to the *)
(* Measure buffer and leaves the Mark buffer as it was.  Neither changes a *)
(* buffer of another type or any drop counter.                             *)
(***************************************************************************)
NotNamed(s, name) == LET other(e) == e.name # name IN SelectSeq(s, other)

ClearedType(op) == IF op = "clearMarks" THEN MARK ELSE MEASURE

C13_ClearFrame ==
    [][result'.op \in {"clearMarks", "clearMeasures"} =>
          LET type == ClearedType(result'.op)
              entryName == result'.args[1]
          IN
          /\ buffers'[type] = IF has_value(entryName)
                              THEN NotNamed(buffers[type], value(entryName))
                              ELSE <<>>
          /\ \A other \in PerformanceEntryType \ {type} :
                buffers'[other] = buffers[other]
          /\ droppedEntries' = droppedEntries
          /\ ~has_value(result'.error)
      ]_vars

(* clearMarks("x") after the Mark buffer overflowed: the Mark of the other *)
(* name stays and the drop counter keeps its value.                        *)
C13_Witness ==
    /\ result.op = "clearMarks"
    /\ result.args = <<Some("x")>>
    /\ recorded = MaxRecords
    /\ Len(buffers[MARK]) = 1
    /\ buffers[MARK][1].name = "y"
    /\ droppedEntries[MARK] = 1

(***************************************************************************)
(* C14: in measureWithResult without an endMark, a given duration makes    *)
(* the recorded entry end at the resolved start plus the duration, so that *)
(* the entry has the given duration; without a duration and with endTime   *)
(* before the resolved start the recorded entry ends at now().             *)
(***************************************************************************)
C14_DurationAndNowFallback ==
    (/\ result.op = "measureWithResult"
     /\ ~has_value(result.error)
     /\ ~has_value(result.args[6])) =>
        LET startTime == result.args[2]
            endTime == result.args[3]
            duration == result.args[4]
            startMark == result.args[5]
            start == IF has_value(startMark)
                     THEN value(markIndex[value(startMark)])
                     ELSE startTime
            entry == LastEntry(MEASURE)
        IN
        /\ has_value(duration) =>
              /\ entry.startTime + entry.duration = start + value(duration)
              /\ entry.duration = value(duration)
        /\ (~has_value(duration) /\ endTime < start) =>
              entry.startTime + entry.duration \in NowValues

(***************************************************************************)
(* C15: the mark-name index holds for each name the time of the last mark  *)
(* of that name: a mark overwrites its name's time, clearMarks(name)       *)
(* forgets that name, clearMarks() forgets every name, and nothing else    *)
(* changes the index.  A measure that has to resolve startMark starts at   *)
(* the indexed time and fails, naming the mark, when the name is not       *)
(* indexed.                                                                *)
(***************************************************************************)
C15_IndexLastWriteWins ==
    [][/\ result'.op = "mark" =>
             markIndex' = [markIndex EXCEPT
                              ![result'.args[1]] = result'.value]
       /\ result'.op = "clearMarks" =>
             markIndex' = IF has_value(result'.args[1])
                          THEN [markIndex EXCEPT
                                   ![value(result'.args[1])] = None]
                          ELSE [n \in Names |-> None]
       /\ result'.op \notin {"mark", "clearMarks"} => markIndex' = markIndex
       /\ (/\ result'.op = "measure"
           /\ ~has_value(result'.args[2])
           /\ has_value(result'.args[5])) =>
             LET startMark == value(result'.args[5]) IN
             IF has_value(markIndex[startMark])
             THEN ~has_value(result'.error) =>
                     /\ value(result'.value)[1] = value(markIndex[startMark])
                     /\ buffers'[MEASURE][Len(buffers'[MEASURE])].startTime =
                            value(markIndex[startMark])
             ELSE result'.error = Some(startMark)
      ]_vars

(* mark("x", 1), mark("x", 0), then a measure from "x": it starts at 0. *)
C15_Witness ==
    /\ result.op = "measure"
    /\ result.args[2] = None
    /\ result.args[5] = Some("x")
    /\ ~has_value(result.error)
    /\ value(result.value)[1] = 0
    /\ Len(buffers[MARK]) = 2
    /\ buffers[MARK][1].name = "x" /\ buffers[MARK][1].startTime = 1
    /\ buffers[MARK][2].name = "x" /\ buffers[MARK][2].startTime = 0

(***************************************************************************)
(* C19: measure(name, startTime = s, endTime = e) does not fail and        *)
(* records and returns the entry of start s and duration e - s, also when  *)
(* e < s and the duration is negative.                                     *)
(***************************************************************************)
C19_NegativeDurationKept ==
    (/\ result.op = "measure"
     /\ has_value(result.args[2])
     /\ has_value(result.args[3])) =>
        LET s == value(result.args[2])
            e == value(result.args[3])
        IN
        /\ ~has_value(result.error)
        /\ result.value = Some(<<s, e - s>>)
        /\ LastEntry(MEASURE).id = recorded
        /\ LastEntry(MEASURE).startTime = s
        /\ LastEntry(MEASURE).duration = e - s

C19_Witness ==
    /\ result.op = "measure"
    /\ result.args[2] = Some(1)
    /\ result.args[3] = Some(0)
    /\ result.value = Some(<<1, -1>>)
    /\ LastEntry(MEASURE).duration < 0

(***************************************************************************)
(* C16: Disconnected is terminal.  An observer's state changes only by an  *)
(* observe or a disconnect on it, and a disconnect leaves it Disconnected. *)
(* Once Disconnected it stays so with no subscription: an observe on it    *)
(* changes nothing, no record appends to its queue or schedules its        *)
(* callback, and a takeRecords on it leaves the queue empty.               *)
(***************************************************************************)
C16_DisconnectedIsTerminal ==
    [][\A h \in ObserverHandles :
          LET o == observers[h]
              on(op) == result'.op = op /\ result'.args[1] = h
              disconnected == o.attached /\ o.state = "Disconnected"
          IN
          /\ observers'[h].state # o.state =>
                \/ on("observe") /\ observers'[h].state = "Observing"
                \/ on("disconnect") /\ observers'[h].state = "Disconnected"
          /\ (on("disconnect") /\ o.attached) =>
                observers'[h].state = "Disconnected"
          /\ disconnected =>
                /\ observers'[h].state = "Disconnected"
                /\ observers'[h].types = {}
                /\ observers'[h].dropped = o.dropped
                /\ scheduled'[h] <= scheduled[h]
                /\ IF on("takeRecords")
                   THEN observers'[h].queue = <<>>
                   ELSE observers'[h].queue = o.queue
                /\ on("observe") => observers'[h] = o
      ]_vars

(* An observe on a disconnected observer that still holds pending entries. *)
C16_Witness ==
    /\ result.op = "observe"
    /\ observers[result.args[1]].state = "Disconnected"
    /\ observers[result.args[1]].types = {}
    /\ observers[result.args[1]].queue # <<>>
    /\ Len(buffers[MARK]) = BufferCapacity

(***************************************************************************)
(* Specification of the dispatch: marks and measures are recorded while an *)
(* observer subscribes by type and by duration and is disconnected; the    *)
(* scheduler is fair to the callbacks it holds: a queued callback is run   *)
(* after finitely many steps.                                              *)
(***************************************************************************)
DispatchOptions ==
    {Options(None, Some({MARK}), None, None),
     Options(Some(MEASURE), None, None, Some(1))}

NextDispatch ==
    \/ markWithResult("x", Some(0))
    \/ \E endTime \in Time :
          measure("m", Some(0), Some(endTime), None, None, None)
    \/ \E observerObj \in ObserverHandles : createObserver(observerObj)
    \/ \E observerObj \in ObserverHandles, options \in DispatchOptions :
          observe(observerObj, options)
    \/ \E observerObj \in ObserverHandles : disconnect(observerObj)
    \/ \E observerObj \in ObserverHandles : RunCallback(observerObj)

SpecDispatch ==
    /\ Init
    /\ [][NextDispatch]_vars
    /\ \A observerObj \in ObserverHandles : WF_vars(RunCallback(observerObj))

(***************************************************************************)
(* C17: a record that appends its entry to an observer's queue schedules   *)
(* that observer's callback exactly once, in the same step and without     *)
(* running it; a record whose entry the observer does not take (it is not  *)
(* observing, the type is not subscribed, the duration is below the        *)
(* threshold) schedules nothing; only a run of the callback takes a        *)
(* scheduled callback away, one per run; and under a fair scheduler every  *)
(* scheduled callback is eventually run.                                   *)
(***************************************************************************)
NewEntry == CHOOSE e \in UNION {{buffers'[t][i] : i \in DOMAIN buffers'[t]} :
                                   t \in PerformanceEntryType} :
               e.id = recorded'

C17_OneCallbackPerDelivery ==
    /\ [][\A h \in ObserverHandles :
             LET o == observers[h]
                 records == IsRecordOp(result'.op) /\ recorded' = recorded + 1
                 runs == result'.op = "callback" /\ result'.args[1] = h
                 appended == observers'[h].queue = Append(o.queue, NewEntry)
                 taken == /\ o.attached /\ o.state = "Observing"
                          /\ NewEntry.entryType \in o.types
                          /\ NewEntry.duration >=
                                 o.threshold[NewEntry.entryType]
             IN
             /\ records =>
                   /\ appended => scheduled'[h] = scheduled[h] + 1
                   /\ ~appended => scheduled'[h] = scheduled[h]
                   /\ ~taken => ~appended /\ observers'[h] = o
                   /\ (taken /\ Len(o.queue) < QueueBound) => appended
             /\ runs =>
                   /\ scheduled'[h] = scheduled[h] - 1
                   /\ observers' = observers
                   /\ buffers' = buffers
             /\ (~records /\ ~runs) => scheduled'[h] = scheduled[h]
         ]_vars
    /\ \A h \in ObserverHandles : \A n \in 1 .. MaxRecords :
          (scheduled[h] = n) ~> (scheduled[h] < n)

(* Two callbacks are queued for two delivered entries, and a measure below *)
(* the threshold has queued none.                                          *)
C17_Witness ==
    /\ result.op = "measure"
    /\ LastEntry(MEASURE).id = recorded
    /\ LastEntry(MEASURE).duration = 0
    /\ \E h \in ObserverHandles :
          /\ observers[h].state = "Observing"
          /\ observers[h].threshold[MEASURE] = 1
          /\ MEASURE \in observers[h].types
          /\ Len(observers[h].queue) = 2
          /\ scheduled[h] = 2

(***************************************************************************)
(* Specification of multiple-mode subscriptions: an observer subscribes in *)
(* single mode with a threshold, in multiple mode with buffered and        *)
(* durationThreshold passed along, and with options that name no type,     *)
(* while marks and measures are recorded.                                  *)
(***************************************************************************)
MultipleOptions ==
    {Options(Some(MEASURE), None, None, Some(1)),
     Options(Some(MEASURE), Some({MARK}), Some(TRUE), Some(1)),
     Options(None, Some({MEASURE}), Some(TRUE), Some(1)),
     Options(None, None, Some(TRUE), Some(1))}

NextMultiple ==
    \/ markWithResult("x", Some(0))
    \/ \E endTime \in Time :
          measure("m", Some(0), Some(endTime), None, None, None)
    \/ \E observerObj \in ObserverHandles : createObserver(observerObj)
    \/ \E observerObj \in ObserverHandles, options \in MultipleOptions :
          observe(observerObj, options)
    \/ \E observerObj \in ObserverHandles : takeRecords(observerObj, FALSE)

SpecMultiple == Init /\ [][NextMultiple]_vars

(***************************************************************************)
(* C18: an observe with entryTypes makes the observer's subscription set   *)
(* exactly the given types, whatever else the options hold: its queue and  *)
(* drop count stay as they were (no replay) and no type keeps a duration   *)
(* threshold.  An observe with neither entryTypes nor type changes         *)
(* nothing.  A record of a type outside the subscription set leaves the    *)
(* observer alone; a record of a subscribed type without threshold is      *)
(* appended whatever its duration, while the queue has room.               *)
(***************************************************************************)
C18_MultipleReplaces ==
    [][\A h \in ObserverHandles :
          LET o == observers[h]
              options == result'.args[2]
              observed == /\ result'.op = "observe" /\ result'.args[1] = h
                          /\ o.attached /\ o.state # "Disconnected"
              records == IsRecordOp(result'.op) /\ recorded' = recorded + 1
          IN
          /\ (observed /\ has_value(options.entryTypes)) =>
                /\ observers'[h].types = value(options.entryTypes)
                /\ observers'[h].queue = o.queue
                /\ observers'[h].dropped = o.dropped
                /\ \A t \in PerformanceEntryType :
                      observers'[h].threshold[t] = 0
                /\ scheduled' = scheduled
          /\ (/\ observed
              /\ ~has_value(options.entryTypes)
              /\ ~has_value(options.type)) =>
                /\ observers'[h] = o
                /\ scheduled' = scheduled
          /\ (records /\ NewEntry.entryType \notin o.types) =>
                observers'[h] = o
          /\ (/\ records /\ o.attached /\ o.state = "Observing"
              /\ NewEntry.entryType \in o.types
              /\ o.threshold[NewEntry.entryType] = 0
              /\ Len(o.queue) < QueueBound) =>
                observers'[h].queue = Append(o.queue, NewEntry)
      ]_vars

(* An observe of Marks only, passed buffered and a threshold, on an        *)
(* observer that held a Measure: the retained Mark is not replayed.        *)
C18_Witness ==
    /\ result.op = "observe"
    /\ result.args[2].entryTypes = Some({MARK})
    /\ result.args[2].buffered = Some(TRUE)
    /\ result.args[2].durationThreshold = Some(1)
    /\ buffers[MARK] # <<>>
    /\ LET o == observers[result.args[1]] IN
       /\ o.types = {MARK}
       /\ Len(o.queue) = 1
       /\ o.queue[1].entryType = MEASURE
       /\ o.threshold[MEASURE] = 0

(***************************************************************************)
(* Concurrent callers (section 5).  Every thread is in at most one call.   *)
(* An insert into the reporter runs under the reporter's mutex, one step   *)
(* per change it makes: it appends to the tail of the buffer, removes the  *)
(* head when the buffer is over its capacity, reads and writes the drop    *)
(* count, and releases the mutex after the index is updated and the entry  *)
(* is forwarded.  A query and a clear are one access each under the mutex. *)
(***************************************************************************)
MaxInserts == BufferCapacity + 2

MutexIgnored == TRUE

MutexFree == ~has_value(mutex)

At(t, pc) == threads[t].pc = pc

Pending == {t \in Threads : At(t, "lock")}

InsertCall(t, type, startTime) ==
    /\ At(t, "idle")
    /\ recorded + Cardinality(Pending) < MaxInserts
    /\ threads' = [threads EXCEPT ![t] =
                      [pc |-> "lock", type |-> type, startTime |-> startTime]]
    /\ UNCHANGED <<result, reporterVars, observerVars,
                   forcedCurrentTimeStamp_, recorded, mutex>>

(* before: the buffer and the drop count as the insert finds them. *)
InsertLock(t) ==
    /\ At(t, "lock")
    /\ MutexFree
    /\ mutex' = Some(t)
    /\ recorded' = recorded + 1
    /\ LET type == threads[t].type IN
       threads' = [threads EXCEPT ![t] =
                      [pc |-> "append",
                       entry |-> Entry(recorded + 1, ThreadName[t], type,
                                       threads[t].startTime, 0),
                       before |-> [buffer |-> buffers[type],
                                   dropped |-> droppedEntries[type]]]]
    /\ UNCHANGED <<result, reporterVars, observerVars,
                   forcedCurrentTimeStamp_>>

InsertAppend(t) ==
    /\ At(t, "append")
    /\ buffers' = [buffers EXCEPT
                      ![threads[t].entry.entryType] =
                          Append(@, threads[t].entry)]
    /\ threads' = [threads EXCEPT ![t].pc = "evict"]
    /\ UNCHANGED <<result, droppedEntries, markIndex, observerVars,
                   forcedCurrentTimeStamp_, recorded, mutex>>

InsertEvict(t) ==
    /\ At(t, "evict")
    /\ LET type == threads[t].entry.entryType IN
       IF Len(buffers[type]) > BufferCapacity
       THEN /\ buffers' = [buffers EXCEPT ![type] = Tail(@)]
            /\ threads' = [threads EXCEPT ![t] =
                  [pc |-> "count", entry |-> threads[t].entry,
                   before |-> threads[t].before,
                   dropped |-> droppedEntries[type]]]
       ELSE /\ threads' = [threads EXCEPT ![t].pc = "forward"]
            /\ UNCHANGED buffers
    /\ UNCHANGED <<result, droppedEntries, markIndex, observerVars,
                   forcedCurrentTimeStamp_, recorded, mutex>>

InsertCount(t) ==
    /\ At(t, "count")
    /\ droppedEntries' = [droppedEntries EXCEPT
                             ![threads[t].entry.entryType] =
                                 threads[t].dropped + 1]
    /\ threads' = [threads EXCEPT ![t] =
                      [pc |-> "forward", entry |-> threads[t].entry,
                       before |-> threads[t].before]]
    /\ UNCHANGED <<result, buffers, markIndex, observerVars,
                   forcedCurrentTimeStamp_, recorded, mutex>>

InsertUnlock(t) ==
    /\ At(t, "forward")
    /\ LET entry == threads[t].entry IN
       /\ markIndex' = IF entry.entryType = MARK
                       THEN [markIndex EXCEPT
                                ![entry.name] = Some(entry.startTime)]
                       ELSE markIndex
       /\ observers' = [h \in Handles |->
                           ObserverHandleEntry(observers[h], entry)]
       /\ scheduled' = [h \in Handles |->
                           IF ObserverDelivers(observers[h], entry)
                           THEN scheduled[h] + 1 ELSE scheduled[h]]
       /\ result' = Result("insert", <<t, entry.entryType>>, None,
                           Some(entry))
    /\ mutex' = None
    /\ threads' = [threads EXCEPT ![t] = Idle]
    /\ UNCHANGED <<buffers, droppedEntries, forcedCurrentTimeStamp_,
                   recorded>>

queryAll(t, type) ==
    /\ At(t, "idle")
    /\ MutexFree
    /\ result' = Result("queryAll", <<t, type>>, None,
                        Some(ReporterGetEntries(type)))
    /\ UNCHANGED <<reporterVars, observerVars, forcedCurrentTimeStamp_,
                   recorded, threadVars>>

clear(t, type) ==
    /\ At(t, "idle")
    /\ MutexFree
    /\ clearEntries(type)
    /\ result' = Result("clear", <<t, type>>, None, None)
    /\ UNCHANGED <<droppedEntries, observerVars, forcedCurrentTimeStamp_,
                   recorded, threadVars>>

(***************************************************************************)
(* NativePerformance::getEntries on a thread: one call of the reporter's   *)
(* getEntries per timeline type, each appending to the local vector        *)
(* entries, then the sort and the conversion of what was collected.        *)
(***************************************************************************)
getEntriesCall(t) ==
    /\ At(t, "idle")
    /\ threads' = [threads EXCEPT ![t] =
                      [pc |-> "getEntries", entries |-> <<>>,
                       types |-> ENTRY_TYPES_AVAILABLE_FROM_TIMELINE]]
    /\ UNCHANGED <<result, reporterVars, observerVars,
                   forcedCurrentTimeStamp_, recorded, mutex>>

getEntriesCollect(t) ==
    /\ At(t, "getEntries")
    /\ threads[t].types # <<>>
    /\ MutexFree
    /\ threads' = [threads EXCEPT ![t] =
                      [pc |-> "getEntries",
                       entries |-> threads[t].entries
                                   \o ReporterGetEntries(Head(threads[t].types)),
                       types |-> Tail(threads[t].types)]]
    /\ UNCHANGED <<result, reporterVars, observerVars,
                   forcedCurrentTimeStamp_, recorded, mutex>>

getEntriesReturn(t) ==
    /\ At(t, "getEntries")
    /\ threads[t].types = <<>>
    /\ result' = Result("getEntries", <<>>, None,
                        Some(toNativePerformanceEntries(
                                 sortEntries(threads[t].entries))))
    /\ threads' = [threads EXCEPT ![t] = Idle]
    /\ UNCHANGED <<reporterVars, observerVars, forcedCurrentTimeStamp_,
                   recorded, mutex>>

NextThreads ==
    \/ \E t \in Threads, type \in {MARK, MEASURE} :
          InsertCall(t, type, 0)
    \/ \E t \in Threads : InsertLock(t)
    \/ \E t \in Threads : InsertAppend(t)
    \/ \E t \in Threads : InsertEvict(t)
    \/ \E t \in Threads : InsertCount(t)
    \/ \E t \in Threads : InsertUnlock(t)
    \/ \E t \in Threads, type \in {MARK, MEASURE} : queryAll(t, type)
    \/ \E t \in Threads, type \in {MARK, MEASURE} : clear(t, type)
    \/ \E t \in Threads : getEntriesCall(t)
    \/ \E t \in Threads : getEntriesCollect(t)
    \/ \E t \in Threads : getEntriesReturn(t)

SpecThreads == Init /\ [][NextThreads]_vars

(***************************************************************************)
(* C20: getEntries returns the Mark and Measure buffers as they are at one *)
(* instant.  A thread records under its own name; when the result of       *)
(* getEntries holds a Measure of a thread, it holds every Mark that the    *)
(* same thread recorded before that Measure and that the Mark buffer       *)
(* still retains.                                                          *)
(***************************************************************************)
C20_GetEntriesIsSnapshot ==
    result.op = "getEntries" =>
        LET returned == value(result.value) IN
        \A i \in DOMAIN returned :
            returned[i].entryType = MEASURE =>
                \A k \in DOMAIN buffers[MARK] :
                    LET markEntry == buffers[MARK][k] IN
                    (/\ markEntry.name = returned[i].name
                     /\ markEntry.id < returned[i].id) =>
                        \E j \in DOMAIN returned :
                            returned[j].id = markEntry.id

(***************************************************************************)
(* C12: every operation of the reporter takes effect at once.  An insert   *)
(* that returns has made, of the buffer and the drop count it found when   *)
(* it started, the buffer with its entry at the tail (the head evicted     *)
(* and the drop count one higher when the buffer was full) and nothing     *)
(* else: no other operation has come between.  A query returns a buffer    *)
(* within its capacity, in recording order (so every thread's entries are  *)
(* in that thread's order), while no insert is half done.  A clear empties *)
(* its buffer only and keeps the drop counts.                              *)
(***************************************************************************)
InsertUnderWay(t) == threads[t].pc \in {"append", "evict", "count", "forward"}

C12_OperationsAtomic ==
    [][/\ \A t \in Threads :
             (At(t, "forward") /\ threads'[t] = Idle) =>
                 LET entry == threads[t].entry
                     before == threads[t].before
                     type == entry.entryType
                     full == Len(before.buffer) = BufferCapacity
                 IN
                 /\ buffers'[type] =
                        Append(IF full THEN Tail(before.buffer)
                               ELSE before.buffer, entry)
                 /\ droppedEntries'[type] =
                        before.dropped + (IF full THEN 1 ELSE 0)
                 /\ InRecordedOrder(buffers'[type])
       /\ (result'.op = "queryAll" /\ threads' = threads) =>
             LET returned == value(result'.value) IN
             /\ Len(returned) <= BufferCapacity
             /\ InRecordedOrder(returned)
             /\ \A t \in Threads : ~InsertUnderWay(t)
       /\ (result'.op = "clear" /\ threads' = threads) =>
             LET type == result'.args[2] IN
             /\ buffers' = [buffers EXCEPT ![type] = <<>>]
             /\ droppedEntries' = droppedEntries
             /\ \A t \in Threads : ~InsertUnderWay(t)
      ]_vars

(* Two inserts of different threads, one right after the other, into a     *)
(* full buffer: the second is about to return, two entries are evicted     *)
(* and the drop count is 2.                                                *)
C12_Witness ==
    /\ At("t1", "forward")
    /\ LET entry == threads["t1"].entry
           before == threads["t1"].before
           type == entry.entryType
       IN
       /\ Len(before.buffer) = BufferCapacity
       /\ before.buffer[BufferCapacity].name = ThreadName["t2"]
       /\ before.buffer[BufferCapacity].id = entry.id - 1
       /\ before.dropped = 1
       /\ droppedEntries[type] = 2
       /\ recorded = BufferCapacity + 2
       /\ buffers[type] = Append(Tail(before.buffer), entry)

====
